---- MODULE Spec2Model ----
(***************************************************************************)
(* Model of the leptos-unique-ids lints: the `view!` invocation recognizer,*)
(* the id attribute value iterator of lints/helpers and the two            *)
(* pre-expansion lint passes that consume it (Spec); of the pascal-case    *)
(* transform of src/pascal_case.rs (PascalSpec); and of the                *)
(* #[leptos_unique_ids] attribute macro of src/lib.rs (GenSpec).           *)
(***************************************************************************)
EXTENDS Integers, Sequences, FiniteSets, TLC

\* ------------------------------------------------------------------------
\* Bounds of the model
\* ------------------------------------------------------------------------
\* longest free-form top-level token sequence
MaxLen == 4
\* most id attributes on one markup element
MaxAttrs == 2
\* longest macro path (number of segments)
MaxPathLen == 2
\* longest input of the pascal-case transform (characters)
MaxInputLen == 4
\* longest attribute token stream of #[leptos_unique_ids(...)]
MaxAttrLen == 3

\* ------------------------------------------------------------------------
\* Token trees (rustc_ast::tokenstream::TokenTree, rustc_ast::token::Token)
\* ------------------------------------------------------------------------
\* TokenTree::Token carrying TokenKind::Ident(symbol, _)
Ident(s) == [tt |-> "Token", kind |-> "Ident", sym |-> s, lit |-> "", tts |-> <<>>]

\* TokenTree::Token carrying a punctuation kind (Eq, Lt, Gt, Colon, ...)
Punct(k) == [tt |-> "Token", kind |-> k, sym |-> "", lit |-> "", tts |-> <<>>]

\* TokenTree::Token carrying TokenKind::Literal(lit) with lit.kind = k
Literal(k, s) == [tt |-> "Token", kind |-> "Literal", sym |-> s, lit |-> k, tts |-> <<>>]

\* TokenTree::Delimited(delim_span, .., inner token stream)
Delimited(inner) == [tt |-> "Delimited", kind |-> "", sym |-> "", lit |-> "", tts |-> inner]

\* Option::None of Iterator::next; a yielded item is the 1-based position
\* of the token in macro_call.args.tokens, which also stands for its span.
None == 0

\* ------------------------------------------------------------------------
\* Inputs: macro paths and top-level argument token sequences
\* ------------------------------------------------------------------------
BoundedSeq(S, n) == UNION {[1..k -> S] : k \in 0..n}

SegmentNames == {"view", "View", "leptos"}

Paths == BoundedSeq(SegmentNames, MaxPathLen)

\* tokens of the free-form sequences
FreeTokens ==
    { Ident("id"), Ident("Ids"), Ident("foo"), Punct("Eq"), Punct("Gt"),
      Literal("Str", "X"), Literal("StrRaw", "X"),
      Delimited(<<Ident("id"), Punct("Eq"), Literal("Str", "X")>>) }

FreeSeqs == BoundedSeq(FreeTokens, MaxLen)

\* values of the ui fixtures: Ids::MyIdentifier, "my-identifier", foo,
\* {foo} and { let my_id = "my-identifier"; my_id }
AttrValues ==
    { <<Ident("Ids"), Punct("PathSep"), Ident("MyIdentifier")>>,
      <<Literal("Str", "my-identifier")>>,
      <<Ident("foo")>>,
      <<Delimited(<<Ident("foo")>>)>>,
      <<Delimited(<<Ident("let"), Ident("my_id"), Punct("Eq"),
                    Literal("Str", "my-identifier"), Punct("Semi"),
                    Ident("my_id")>>)>> }

\* `id=V` or `attr:id=V`
Attribute(qualified, v) ==
    (IF qualified THEN <<Ident("attr"), Punct("Colon")>> ELSE <<>>)
        \o <<Ident("id"), Punct("Eq")>> \o v

Attributes == {Attribute(q, v) : q \in BOOLEAN, v \in AttrValues}

RECURSIVE Flatten(_)
Flatten(ss) == IF ss = <<>> THEN <<>> ELSE Head(ss) \o Flatten(Tail(ss))

\* text content of the element: bare words or a quoted string
Children == { <<Ident("Hello")>>, <<Literal("Str", "Hello")>> }

\* `<div ATTRS>CHILDREN</div>`
Element(attrs, children) ==
    <<Punct("Lt"), Ident("div")>> \o Flatten(attrs) \o <<Punct("Gt")>>
        \o children
        \o <<Punct("Lt"), Punct("Slash"), Ident("div"), Punct("Gt")>>

Views ==
    { Element(as, c) :
        as \in (BoundedSeq(Attributes, MaxAttrs) \ {<<>>}), c \in Children }

TokenSeqs == FreeSeqs \cup Views

\* ------------------------------------------------------------------------
\* State
\* ------------------------------------------------------------------------
VARIABLES
    path,          \* macro_call.path.segments (segment names)
    tokens,        \* macro_call.args.tokens (top-level token trees)
    lint,          \* which lint pass runs check_mac on the invocation
    pc,            \* "idle" | "loop" | "done"
    iter,          \* ViewMacroCallIdAttributeValueIter.iter: tokens consumed
    parser_state,  \* ViewMacroCallIdAttributeValueIter.parser_state (u8)
    yielded,       \* items returned by Iterator::next so far
    diags,         \* spans passed to span_lint_and_help so far
    p_input,       \* to_pascal_case: input
    p_result,      \* to_pascal_case: returned Result
    item,          \* leptos_unique_ids: item token stream
    attr,          \* leptos_unique_ids: attr token stream
    g_pc,          \* leptos_unique_ids: "idle" | "start" | "attr" | "done"
    g_pos,         \* leptos_unique_ids: attr tokens consumed by the for loop
    vis,           \* leptos_unique_ids: vis (<<>> is None)
    ids,           \* leptos_unique_ids: ids
    ids_variants_idents,  \* leptos_unique_ids: ids_variants_idents
    output         \* leptos_unique_ids: returned token stream, or the panic

lintVars == <<path, tokens, lint, pc, iter, parser_state, yielded, diags>>
pascalVars == <<p_input, p_result>>
genVars == <<item, attr, g_pc, g_pos, vis, ids, ids_variants_idents, output>>

vars == <<lintVars, pascalVars, genVars>>

\* ------------------------------------------------------------------------
\* lints/helpers
\* ------------------------------------------------------------------------
is_leptos_view_macro_call_first(p) ==
    IF p = <<>> THEN FALSE ELSE p[1] = "view"

\* segments.iter().last().map_or(false, |segment| name == "view")
is_leptos_view_macro_call(p) ==
    IF p = <<>> THEN FALSE ELSE p[Len(p)] = "view"

\* state 1: TokenTree::Token whose kind is Ident with symbol "id"
IsIdIdent(token) ==
    token.tt = "Token" /\ token.kind = "Ident" /\ token.sym = "id"

IsEqToken_AnyToken(token) ==
    token.tt = "Token"

\* state 2: TokenTree::Token whose kind is TokenKind::Eq
IsEqToken(token) ==
    token.tt = "Token" /\ token.kind = "Eq"

\* parser_state <<= 1 and parser_state >>= 1 on a u8
Shl1(s) == (s * 2) % 256
Shr1(s) == s \div 2

\* Iterator::next: the new iterator fields and the returned item
RECURSIVE Iterator_next(_, _, _)
Iterator_next(ts, it, st) ==
    IF it >= Len(ts)
    THEN [iter |-> it, parser_state |-> st, item |-> None]
    ELSE LET token == ts[it + 1] IN
         IF st = 1
         THEN IF IsIdIdent(token)
              THEN Iterator_next(ts, it + 1, Shl1(st))
              ELSE Iterator_next(ts, it + 1, st)
         ELSE IF st = 2
         THEN IF IsEqToken(token)
              THEN Iterator_next(ts, it + 1, Shl1(st))
              ELSE Iterator_next(ts, it + 1, Shr1(st))
         ELSE IF token.tt = "Token"
              THEN [iter |-> it + 1, parser_state |-> st, item |-> it + 1]
              ELSE Iterator_next(ts, it + 1, 1)

\* ------------------------------------------------------------------------
\* The two rules
\* ------------------------------------------------------------------------
\* literal_as_id_attribute_value: TokenKind::Literal with LitKind::Str
LiteralReports(token) ==
    token.kind = "Literal" /\ token.lit = "Str"

\* tt_as_id_attribute_value: the body of the for loop
TtReports(tt) ==
    IF tt.tt = "Token"
    THEN IF tt.kind = "Ident"
         THEN tt.sym # "Ids"
         ELSE ~(tt.kind = "Literal" /\ tt.lit = "Str")
    ELSE tt.tt = "Delimited"

Reports(l, tt) ==
    IF l = "literal_as_id_attribute_value" THEN LiteralReports(tt) ELSE TtReports(tt)

\* ------------------------------------------------------------------------
\* Behaviour
\* ------------------------------------------------------------------------
\* no to_pascal_case call in flight
PascalIdle ==
    /\ p_input = <<>>
    /\ p_result = [state |-> "idle", value |-> <<>>]

\* no macro expansion in flight
GenIdle ==
    /\ item = <<>>
    /\ attr = <<>>
    /\ g_pc = "idle"
    /\ g_pos = 0
    /\ vis = <<>>
    /\ ids = <<>>
    /\ ids_variants_idents = <<>>
    /\ output = [kind |-> "none"]

\* no lint pass in flight
LintIdle ==
    /\ path = <<>>
    /\ tokens = <<>>
    /\ lint = "none"
    /\ pc = "off"
    /\ iter = 0
    /\ parser_state = 1
    /\ yielded = <<>>
    /\ diags = <<>>

Init ==
    /\ PascalIdle
    /\ GenIdle
    /\ path \in Paths
    /\ tokens \in TokenSeqs
    /\ lint = "none"
    /\ pc = "idle"
    /\ iter = 0
    /\ parser_state = 1
    /\ yielded = <<>>
    /\ diags = <<>>

\* check_mac up to the construction of the iterator
CheckMacEnter(l) ==
    /\ pc = "idle"
    /\ lint' = l
    /\ pc' = IF is_leptos_view_macro_call(path) THEN "loop" ELSE "done"
    /\ iter' = 0
    /\ parser_state' = 1
    /\ UNCHANGED <<path, tokens, yielded, diags, pascalVars, genVars>>

\* one iteration of `for token in ViewMacroCallIdAttributeValueIter::new(..)`
CheckMacLoop(l) ==
    /\ pc = "loop"
    /\ lint = l
    /\ LET r == Iterator_next(tokens, iter, parser_state) IN
        /\ iter' = r.iter
        /\ parser_state' = r.parser_state
        /\ IF r.item = None
           THEN /\ pc' = "done"
                /\ UNCHANGED <<yielded, diags>>
           ELSE /\ pc' = "loop"
                /\ yielded' = Append(yielded, r.item)
                /\ diags' = IF Reports(l, tokens[r.item])
                            THEN Append(diags, r.item)
                            ELSE diags
    /\ UNCHANGED <<path, tokens, lint, pascalVars, genVars>>

LiteralCheckMac == CheckMacEnter("literal_as_id_attribute_value")
TtCheckMac == CheckMacEnter("tt_as_id_attribute_value")
LiteralLoop == CheckMacLoop("literal_as_id_attribute_value")
TtLoop == CheckMacLoop("tt_as_id_attribute_value")

Next == LiteralCheckMac \/ TtCheckMac \/ LiteralLoop \/ TtLoop

Spec == Init /\ [][Next]_vars

TypeOK ==
    /\ pc \in {"idle", "loop", "done"}
    /\ parser_state \in {1, 2, 4}
    /\ iter \in 0..Len(tokens)

\* ------------------------------------------------------------------------
\* Characters (a str is a sequence of one-character strings)
\* ------------------------------------------------------------------------
AsciiLower == {"a", "b", "c", "r"}
AsciiUpper == {"A", "B", "C", "R"}
AsciiDigit == {"5"}
\* ASCII characters that are neither letters nor digits
AsciiOther == {"-", "_", "\"", "#"}
\* characters outside ASCII: a lower-case and an upper-case letter
NonAscii == {"á", "Á"}

\* char::is_ascii
is_ascii(char) == char \in AsciiLower \cup AsciiUpper \cup AsciiDigit \cup AsciiOther

\* char::is_ascii_alphanumeric
is_ascii_alphanumeric(char) == char \in AsciiLower \cup AsciiUpper \cup AsciiDigit

\* char::is_ascii_uppercase, is_ascii_lowercase, is_ascii_digit
is_ascii_uppercase(char) == char \in AsciiUpper
is_ascii_lowercase(char) == char \in AsciiLower
is_ascii_digit(char) == char \in AsciiDigit

to_ascii_uppercase_Identity(char) == char

\* char::to_ascii_uppercase
to_ascii_uppercase(char) ==
    CASE char = "a" -> "A"
      [] char = "b" -> "B"
      [] char = "c" -> "C"
      [] char = "r" -> "R"
      [] OTHER -> char

\* ------------------------------------------------------------------------
\* src/pascal_case.rs
\* ------------------------------------------------------------------------
Ok(v) == [state |-> "Ok", value |-> v]
Err(m) == [state |-> "Err", value |-> m]

\* the `for char in input.chars()` loop of to_pascal_case, from character i
RECURSIVE to_pascal_case_loop(_, _, _, _)
to_pascal_case_loop(input, i, pascal, at_word_boundary) ==
    IF i > Len(input) THEN Ok(pascal)
    ELSE LET char == input[i] IN
         IF ~is_ascii(char)
         THEN Err("Input contains non-ASCII characters.")
         ELSE IF is_ascii_alphanumeric(char)
         THEN IF at_word_boundary
              THEN to_pascal_case_loop(input, i + 1,
                       Append(pascal, to_ascii_uppercase(char)), FALSE)
              ELSE IF is_ascii_uppercase(char) \/ is_ascii_lowercase(char)
              THEN to_pascal_case_loop(input, i + 1, Append(pascal, char),
                                       at_word_boundary)
              ELSE IF is_ascii_digit(char)
              THEN to_pascal_case_loop(input, i + 1, Append(pascal, char), TRUE)
              ELSE to_pascal_case_loop(input, i + 1, pascal, TRUE)
         ELSE to_pascal_case_loop(input, i + 1, pascal, TRUE)

\* to_pascal_case (the build without the convert-case feature)
to_pascal_case(input) == to_pascal_case_loop(input, 1, <<>>, TRUE)

\* inputs of the transform
PascalChars == {"a", "B", "5", "-", "_", "á"}

PascalInputs == BoundedSeq(PascalChars, MaxInputLen)

PascalInit ==
    /\ LintIdle
    /\ GenIdle
    /\ p_input \in PascalInputs
    /\ p_result = [state |-> "idle", value |-> <<>>]

\* a call of to_pascal_case(p_input)
ToPascalCase ==
    /\ p_result.state = "idle"
    /\ p_result' = to_pascal_case(p_input)
    /\ UNCHANGED <<p_input, lintVars, genVars>>

PascalNext == ToPascalCase

PascalSpec == PascalInit /\ [][PascalNext]_vars

\* ------------------------------------------------------------------------
\* src/lib.rs: token trees of proc_macro
\* ------------------------------------------------------------------------
\* proc_macro::TokenTree::Ident
PIdent(name) ==
    [tt |-> "Ident", s |-> name, text |-> <<>>, delim |-> "", inner |-> <<>>]

\* proc_macro::TokenTree::Punct
PPunct(ch) ==
    [tt |-> "Punct", s |-> ch, text |-> <<>>, delim |-> "", inner |-> <<>>]

\* proc_macro::TokenTree::Literal; text is what literal.to_string() gives
PLiteral(t) ==
    [tt |-> "Literal", s |-> "", text |-> t, delim |-> "", inner |-> <<>>]

\* proc_macro::TokenTree::Group
PGroup(d, ts) ==
    [tt |-> "Group", s |-> "", text |-> <<>>, delim |-> d, inner |-> ts]

\* the source text of the plain string literal with the given content
StrText(content) == <<"\"">> \o content \o <<"\"">>

\* item token streams: [pub | pub(crate)] (enum | struct) (Ids | Foo) { [A] }
ItemVis ==
    { <<>>, <<PIdent("pub")>>,
      <<PIdent("pub"), PGroup("Parenthesis", <<PIdent("crate")>>)>> }

ItemBodies == { PGroup("Brace", <<>>), PGroup("Brace", <<PIdent("A")>>) }

Items ==
    { v \o <<PIdent(k), PIdent(n), b>> :
        v \in ItemVis, k \in {"enum", "struct"}, n \in {"Ids", "Foo"},
        b \in ItemBodies }

\* attr tokens: "", "a-b", "a_b", "á", "-", "5a", 5, a comma, `;`, foo
AttrTokens ==
    { PLiteral(StrText(<<>>)),
      PLiteral(StrText(<<"a", "-", "b">>)),
      PLiteral(StrText(<<"a", "_", "b">>)),
      PLiteral(StrText(<<"á">>)),
      PLiteral(StrText(<<"-">>)),
      PLiteral(StrText(<<"5", "a">>)),
      PLiteral(<<"5">>),
      PPunct(","), PPunct(";"), PIdent("foo") }

Attrs == BoundedSeq(AttrTokens, MaxAttrLen)

\* ------------------------------------------------------------------------
\* src/lib.rs: helpers of the macro
\* ------------------------------------------------------------------------
\* str::starts_with
starts_with(str, prefix) ==
    Len(str) >= Len(prefix) /\ SubSeq(str, 1, Len(prefix)) = prefix

\* &str[from..to]
Slice(str, from, to) == SubSeq(str, from + 1, to)

value_from_literal_str(literal_str) ==
    IF starts_with(literal_str, <<"r", "#">>)
    THEN Ok(Slice(literal_str, 2, Len(literal_str) - 2))
    ELSE IF starts_with(literal_str, <<"c", "\"">>)
    THEN Ok(Slice(literal_str, 2, Len(literal_str) - 1))
    ELSE IF starts_with(literal_str, <<"c", "r", "#">>)
    THEN Ok(Slice(literal_str, 3, Len(literal_str) - 2))
    ELSE IF starts_with(literal_str, <<"\"">>)
    THEN Ok(Slice(literal_str, 1, Len(literal_str) - 1))
    ELSE Err("Literal must be a string literal")

\* char::to_uppercase and char::to_lowercase
to_uppercase(char) == IF char = "á" THEN "Á" ELSE to_ascii_uppercase(char)
to_lowercase(char) ==
    CASE char = "A" -> "a" [] char = "B" -> "b" [] char = "C" -> "c"
      [] char = "R" -> "r" [] char = "Á" -> "á" [] OTHER -> char

IsCaseLetter(char) == char \in AsciiLower \cup AsciiUpper \cup NonAscii
IsLowerLetter(char) == char \in AsciiLower \cup {"á"}
IsUpperLetter(char) == char \in AsciiUpper \cup {"Á"}

\* input.to_case(Case::Pascal) of the convert_case crate, which
\* to_pascal_case_ident calls: `-` and `_` separate words and are dropped, a
\* word also starts after a digit and at an upper-case letter that follows
\* a lower-case one, the first letter of a word is upper-cased and its other
\* letters are lower-cased. It has no error result.
RECURSIVE to_case_Pascal_loop(_, _, _, _)
to_case_Pascal_loop(input, i, pascal, word_start) ==
    IF i > Len(input) THEN pascal
    ELSE LET char == input[i] IN
         IF char \in {"-", "_"}
         THEN to_case_Pascal_loop(input, i + 1, pascal, TRUE)
         ELSE IF is_ascii_digit(char)
         THEN to_case_Pascal_loop(input, i + 1, Append(pascal, char), TRUE)
         ELSE IF IsCaseLetter(char)
         THEN IF \/ word_start
                 \/ (i > 1 /\ IsLowerLetter(input[i - 1]) /\ IsUpperLetter(char))
              THEN to_case_Pascal_loop(input, i + 1,
                       Append(pascal, to_uppercase(char)), FALSE)
              ELSE to_case_Pascal_loop(input, i + 1,
                       Append(pascal, to_lowercase(char)), FALSE)
         ELSE to_case_Pascal_loop(input, i + 1, Append(pascal, char), FALSE)

to_case_Pascal(input) == to_case_Pascal_loop(input, 1, <<>>, TRUE)

\* proc_macro::Ident::new accepts the string (it panics otherwise)
is_valid_ident(str) ==
    /\ str # <<>>
    /\ (IsCaseLetter(str[1]) \/ str[1] = "_")
    /\ \A i \in 2..Len(str) :
          IsCaseLetter(str[i]) \/ is_ascii_digit(str[i]) \/ str[i] = "_"

\* to_pascal_case_ident: the identifier, or the panic of Ident::new
to_pascal_case_ident(input) ==
    LET pascal == to_case_Pascal(input) IN
    IF is_valid_ident(pascal) THEN Ok(pascal)
    ELSE [state |-> "panic", value |-> pascal]

\* error(message, span): a compile_error! invocation and nothing else
error(message, span) ==
    [kind |-> "compile_error", message |-> message, span |-> span]

\* the expansion ends in a panic of the macro
panic(message) == [kind |-> "panic", message |-> message]

\* the closure of skip_while over the item tokens from position i on:
\* where the skipping stops and what vis has become
RECURSIVE skip_while(_, _, _)
skip_while(it, i, v) ==
    IF i > Len(it) THEN [start |-> i, vis |-> v]
    ELSE LET token == it[i] IN
         IF token.tt = "Ident"
         THEN IF token.s = "enum" THEN [start |-> i, vis |-> v]
              ELSE IF token.s = "pub" THEN skip_while(it, i + 1, <<token>>)
              ELSE skip_while(it, i + 1, v)
         ELSE IF token.tt = "Group" /\ token.delim = "Parenthesis"
         THEN [start |-> i, vis |-> Append(v, token)]
         ELSE skip_while(it, i + 1, v)

\* the closure of enum_tokens_iter.all
enum_token_allowed(token) ==
    IF token.tt = "Ident" THEN token.s \in {"Ids", "enum", "pub"}
    ELSE IF token.tt = "Group" THEN token.delim \in {"Brace", "Parenthesis"}
    ELSE FALSE

\* position of the first `enum` identifier of the item, 0 when there is none
first_enum(it) ==
    IF \E i \in 1..Len(it) : it[i] = PIdent("enum")
    THEN CHOOSE i \in 1..Len(it) :
            /\ it[i] = PIdent("enum")
            /\ \A j \in 1..(i - 1) : it[j] # PIdent("enum")
    ELSE 0

ids_contains_Last(list, value) ==
    list # <<>> /\ list[Len(list)] = value

\* ids.contains(&value)
ids_contains(list, value) == \E i \in 1..Len(list) : list[i] = value

\* format!("{id:?}") of an id without characters to escape
debug_format(id) == <<"\"">> \o id \o <<"\"">>

\* the token stream built at lib.rs:232-438
generated(it, v, id_list, ident_list) ==
    [kind |-> "code",
     decl |-> SubSeq(it, 1, Len(it) - 1),
     variants |-> [i \in 1..Len(id_list) |->
                     [doc |-> debug_format(id_list[i]), ident |-> ident_list[i]]],
     vis |-> v,
     arms |-> [i \in 1..Len(id_list) |->
                 [ident |-> ident_list[i], literal |-> id_list[i]]]]

\* ------------------------------------------------------------------------
\* src/lib.rs: leptos_unique_ids
\* ------------------------------------------------------------------------
GenInit ==
    /\ LintIdle
    /\ PascalIdle
    /\ item \in Items
    /\ attr \in Attrs
    /\ g_pc = "start"
    /\ g_pos = 0
    /\ vis = <<>>
    /\ ids = <<>>
    /\ ids_variants_idents = <<>>
    /\ output = [kind |-> "none"]

\* lib.rs:139-188: the check of the declaration
CheckItem ==
    /\ g_pc = "start"
    /\ LET sk == skip_while(item, 1, <<>>) IN
        /\ vis' = sk.vis
        /\ IF \A i \in sk.start..Len(item) : enum_token_allowed(item[i])
           THEN /\ g_pc' = "attr"
                /\ UNCHANGED output
           ELSE /\ g_pc' = "done"
                /\ output' =
                     IF first_enum(item) = 0
                     THEN panic("Expected at least one token in the enum declaration")
                     ELSE error("Expected an enum formed with the token tree enum Ids {{}}.",
                                <<"item", first_enum(item)>>)
    /\ UNCHANGED <<item, attr, g_pos, ids, ids_variants_idents,
                   lintVars, pascalVars>>

\* lib.rs:193-230: one iteration of `for token in attr`
AttrToken ==
    /\ g_pc = "attr"
    /\ g_pos < Len(attr)
    /\ LET token == attr[g_pos + 1]
           span == <<"attr", g_pos + 1>>
           maybe_value == value_from_literal_str(token.text)
           value == maybe_value.value
           ident == to_pascal_case_ident(value)
           stop(out) == /\ output' = out
                        /\ g_pc' = "done"
                        /\ UNCHANGED <<g_pos, ids, ids_variants_idents>>
       IN
       IF token.tt = "Literal"
       THEN IF maybe_value.state = "Err"
            THEN stop(error(maybe_value.value, span))
            ELSE IF value = <<>>
            THEN stop(error("String literals in the attribute cannot be empty.", span))
            ELSE IF ids_contains(ids, value)
            THEN stop(error("Duplicated string literal found.", span))
            ELSE IF ident.state = "panic"
            THEN stop(panic("Ident::new"))
            ELSE /\ ids_variants_idents' = Append(ids_variants_idents, ident.value)
                 /\ ids' = Append(ids, value)
                 /\ g_pos' = g_pos + 1
                 /\ UNCHANGED <<g_pc, output>>
       ELSE IF token.tt = "Punct"
       THEN IF token.s # ","
            THEN stop(error("Expected a comma between string literals in the attribute.", span))
            ELSE /\ g_pos' = g_pos + 1
                 /\ UNCHANGED <<g_pc, output, ids, ids_variants_idents>>
       ELSE stop(error("Expected only string literals and commas in the attribute.", span))
    /\ UNCHANGED <<item, attr, vis, lintVars, pascalVars>>

\* lib.rs:232-438: the enum, the as_str impl and the conversions
EmitCode ==
    /\ g_pc = "attr"
    /\ g_pos = Len(attr)
    /\ output' = generated(item, vis, ids, ids_variants_idents)
    /\ g_pc' = "done"
    /\ UNCHANGED <<item, attr, g_pos, vis, ids, ids_variants_idents,
                   lintVars, pascalVars>>

GenNext == CheckItem \/ AttrToken \/ EmitCode

GenSpec == GenInit /\ [][GenNext]_vars

\* ------------------------------------------------------------------------
\* Vocabulary of the properties
\* ------------------------------------------------------------------------
Recognized == path # <<>> /\ path[Len(path)] = "view"

Finished == pc = "done" /\ Recognized

\* the identifier `id` and the `=` atom, as the properties speak of them
IdAtom(n) == n = Ident("id")
EqAtom(n) == n = Punct("Eq")

LiteralLint == lint = "literal_as_id_attribute_value"
TtLint == lint = "tt_as_id_attribute_value"

\* positions of the values V of the non-overlapping occurrences of
\* `id` `=` V in ts, from position i on, left to right
RECURSIVE ValuePositions(_, _)
ValuePositions(ts, i) ==
    IF i + 2 > Len(ts) THEN <<>>
    ELSE IF IdAtom(ts[i]) /\ EqAtom(ts[i + 1])
         THEN <<i + 2>> \o ValuePositions(ts, i + 3)
         ELSE ValuePositions(ts, i + 1)

IdValues == ValuePositions(tokens, 1)

\* number of `id` identifiers at top level of ts
IdCount(ts) == Cardinality({i \in 1..Len(ts) : IdAtom(ts[i])})

IsStrLiteral(n) == n.tt = "Token" /\ n.kind = "Literal" /\ n.lit = "Str"

\* no identifier `id` is immediately followed by a `=` atom
NoIdEq(ts) ==
    \A i \in 1..(Len(ts) - 1) : ~(IdAtom(ts[i]) /\ EqAtom(ts[i + 1]))

\* the diagnostics of a whole pass of lint l over ts
RECURSIVE PassDiags(_, _, _, _)
PassDiags(l, ts, it, st) ==
    LET r == Iterator_next(ts, it, st) IN
    IF r.item = None THEN <<>>
    ELSE (IF Reports(l, ts[r.item]) THEN <<r.item>> ELSE <<>>)
            \o PassDiags(l, ts, r.iter, r.parser_state)

\* ts with the `id` token at position i respelled `attr` `:` `id`
Qualify(ts, i) ==
    SubSeq(ts, 1, i - 1) \o <<Ident("attr"), Punct("Colon")>>
        \o SubSeq(ts, i, Len(ts))

\* where the token at position p of ts sits in Qualify(ts, i)
ShiftSpan(p, i) == IF p < i THEN p ELSE p + 2

\* ------------------------------------------------------------------------
\* Properties
\* ------------------------------------------------------------------------
\* C1: a finished scan has yielded exactly the value nodes of the
\* non-overlapping `id` `=` V occurrences of the top-level sequence, each V
\* itself, atom or delimited group, in source order.
C1_OneNodePerOccurrence ==
    Finished => yielded = IdValues

\* C2: the scanner is in Scanning between emissions, and every yielded node
\* is immediately preceded by a `=` atom that is immediately preceded by the
\* identifier `id`.
C2_YieldedFollowsIdEq ==
    /\ (pc = "loop" => parser_state = 1)
    /\ \A k \in 1..Len(yielded) :
          LET p == yielded[k] IN
          /\ p >= 3
          /\ EqAtom(tokens[p - 1])
          /\ IdAtom(tokens[p - 2])

\* C3: an invocation whose path is empty or does not end in `view` is never
\* scanned and gets no diagnostic from either rule, whatever its tokens; an
\* invocation whose path ends in `view` is scanned to the end whatever the
\* earlier segments and the tokens are.
C3_OnlyViewIsLinted ==
    /\ ~Recognized => (pc # "loop" /\ yielded = <<>> /\ diags = <<>>)
    /\ (Recognized /\ pc = "done") => iter = Len(tokens)

\* C3 witness: a finished check of `view::<other>` whose arguments hold an
\* id attribute with a string literal and one with a plain identifier.
C3_Witness ==
    /\ pc = "done"
    /\ Len(path) = 2 /\ path[1] = "view" /\ path[2] # "view"
    /\ \E k \in 1..Len(IdValues) : IsStrLiteral(tokens[IdValues[k]])
    /\ \E k \in 1..Len(IdValues) : tokens[IdValues[k]] = Ident("foo")

\* C4: `id=Ids::Variant` as the only id attribute draws no diagnostic from
\* either rule.
C4_IdsVariantSilent ==
    (/\ Finished
     /\ IdCount(tokens) = 1
     /\ Len(IdValues) = 1
     /\ tokens[IdValues[1]] = Ident("Ids")
     /\ IdValues[1] + 2 <= Len(tokens)
     /\ tokens[IdValues[1] + 1] = Punct("PathSep")
     /\ tokens[IdValues[1] + 2].kind = "Ident")
    => diags = <<>>

\* C5: `id="X"` as the only id attribute draws exactly one diagnostic from
\* the Literal-Value rule, at the literal, and none from the
\* Non-Registry-Value rule, whatever follows the attribute.
C5_StrLiteralOneDiag ==
    (/\ Finished
     /\ IdCount(tokens) = 1
     /\ Len(IdValues) = 1
     /\ IsStrLiteral(tokens[IdValues[1]]))
    => diags = (IF LiteralLint THEN IdValues ELSE <<>>)

\* C6: `id=foo` with foo a plain identifier other than `Ids`, as the only
\* id attribute, draws exactly one diagnostic from the Non-Registry-Value
\* rule, at foo, and none from the Literal-Value rule.
C6_PlainIdentOneDiag ==
    (/\ Finished
     /\ IdCount(tokens) = 1
     /\ Len(IdValues) = 1
     /\ tokens[IdValues[1]].tt = "Token"
     /\ tokens[IdValues[1]].kind = "Ident"
     /\ tokens[IdValues[1]].sym \notin {"Ids", "id"})
    => diags = (IF TtLint THEN IdValues ELSE <<>>)

\* C7: `id={ ... }` as the only id attribute draws exactly one diagnostic
\* from the Non-Registry-Value rule, spanning the group, whatever the group
\* holds, and none from the Literal-Value rule.
C7_GroupOneDiag ==
    (/\ Finished
     /\ IdCount(tokens) = 1
     /\ Len(IdValues) = 1
     /\ tokens[IdValues[1]].tt = "Delimited")
    => diags = (IF TtLint THEN IdValues ELSE <<>>)

\* C8: two attributes `id="A"` and `id="B"` make the scanner yield exactly
\* the two literals, A then B, and the Literal-Value rule report exactly
\* those two, in source order.
C8_TwoLiteralsTwoNodes ==
    (/\ Finished
     /\ IdCount(tokens) = 2
     /\ Len(IdValues) = 2
     /\ IsStrLiteral(tokens[IdValues[1]])
     /\ IsStrLiteral(tokens[IdValues[2]]))
    => /\ yielded = IdValues
       /\ LiteralLint => diags = IdValues

\* C9: respelling the `id` token of any `id=V` attribute as `attr:id`
\* leaves the diagnostics of the rule unchanged: same count, same tokens.
C9_QualifiedSpellingSame ==
    Finished =>
        \A i \in 1..(Len(tokens) - 2) :
            (IdAtom(tokens[i]) /\ EqAtom(tokens[i + 1]))
            => PassDiags(lint, Qualify(tokens, i), 0, 1)
                 = [k \in 1..Len(diags) |-> ShiftSpan(diags[k], i)]

\* C10: a top-level sequence in which no identifier `id` is immediately
\* followed by a `=` atom makes the scanner yield nothing, so neither rule
\* reports anything.
C10_NoIdEqNoYield ==
    NoIdEq(tokens) => (yielded = <<>> /\ diags = <<>>)

\* C10 witness: a finished scan of a sequence that holds an `id` and, later
\* but not adjacent, a `=`.
C10_Witness ==
    /\ Finished
    /\ iter = Len(tokens)
    /\ NoIdEq(tokens)
    /\ \E i \in 1..Len(tokens) : \E j \in (i + 2)..Len(tokens) :
          IdAtom(tokens[i]) /\ EqAtom(tokens[j])

\* a string literal of any encoding: plain, raw, byte, C
IsAnyStrLiteral(n) ==
    /\ n.tt = "Token"
    /\ n.kind = "Literal"
    /\ n.lit \in {"Str", "StrRaw", "ByteStr", "ByteStrRaw", "CStr", "CStrRaw"}

\* how many diagnostics sit at span p
DiagCount(p) == Cardinality({k \in 1..Len(diags) : diags[k] = p})

\* C11: for every yielded value node, the Literal-Value rule reports exactly
\* one diagnostic when the node is a string literal of any encoding and none
\* otherwise, and the Non-Registry-Value rule reports none for a string
\* literal of any encoding.
C11_AnyStringLiteralReported ==
    \A k \in 1..Len(yielded) :
        LET p == yielded[k] IN
        /\ LiteralLint =>
              DiagCount(p) = (IF IsAnyStrLiteral(tokens[p]) THEN 1 ELSE 0)
        /\ (TtLint /\ IsAnyStrLiteral(tokens[p])) => DiagCount(p) = 0

\* C16: an `id` identifier directly followed by `id` `=` V still yields V;
\* for the whole sequence `id id = x` the scanner yields exactly x.
C16_SecondIdReevaluated ==
    Finished =>
        /\ \A i \in 1..(Len(tokens) - 3) :
              (IdAtom(tokens[i]) /\ IdAtom(tokens[i + 1])
                  /\ EqAtom(tokens[i + 2]))
              => \E k \in 1..Len(yielded) : yielded[k] = i + 3
        /\ (Len(tokens) = 4 /\ IdAtom(tokens[1]) /\ IdAtom(tokens[2])
               /\ EqAtom(tokens[3]))
           => yielded = <<4>>

\* position p of the top-level sequence holds the value of an id attribute
IsValuePos(p) == \E k \in 1..Len(IdValues) : IdValues[k] = p

\* the sequence ends with an unmatched `id`, or with `id` `=` and no value
TrailingId(ts) ==
    \/ (Len(ts) >= 1 /\ IdAtom(ts[Len(ts)]) /\ ~IsValuePos(Len(ts)))
    \/ (Len(ts) >= 2 /\ IdAtom(ts[Len(ts) - 1]) /\ EqAtom(ts[Len(ts)])
           /\ ~IsValuePos(Len(ts) - 1) /\ ~IsValuePos(Len(ts)))

\* C17: a scan of a sequence that ends with an unmatched `id`, or with
\* `id` `=` and nothing after, terminates having consumed every token,
\* yields no node for the trailing occurrence and yields exactly the values
\* found earlier.
C17_ExhaustionSilent ==
    (Finished /\ TrailingId(tokens))
    => (iter = Len(tokens) /\ yielded = IdValues)

\* ------------------------------------------------------------------------
\* Properties of the pascal-case transform
\* ------------------------------------------------------------------------
IsLetter(c) == c \in AsciiLower \cup AsciiUpper
IsAlnum(c) == c \in AsciiLower \cup AsciiUpper \cup AsciiDigit
AllAscii(str) == \A i \in 1..Len(str) : str[i] \notin NonAscii

\* the upper-case form of an ASCII character
UpperOf(c) ==
    CASE c = "a" -> "A" [] c = "b" -> "B" [] c = "c" -> "C" [] c = "r" -> "R"
      [] OTHER -> c

\* where character i of str lands in the output: the number of
\* alphanumeric characters among the first i
OutPos(str, i) == Cardinality({j \in 1..i : IsAlnum(str[j])})

\* C18: in the result for an ASCII input, the letter that directly follows
\* a digit is upper-cased, wherever that digit stands.
C18_LetterAfterDigitUpper ==
    (p_result.state # "idle" /\ AllAscii(p_input))
    => /\ p_result.state = "Ok"
       /\ \A i \in 1..(Len(p_input) - 1) :
             (p_input[i] \in AsciiDigit /\ IsLetter(p_input[i + 1]))
             => p_result.value[OutPos(p_input, i + 1)]
                  = UpperOf(p_input[i + 1])

\* character i starts a word when it is the first character or follows a
\* character that is not alphanumeric
AfterSeparator(str, i) == i = 1 \/ ~IsAlnum(str[i - 1])

\* character i starts a word when it is the first character, follows a
\* character that is not alphanumeric, or follows a digit that does not
\* itself start a word
RECURSIVE StartsWord(_, _)
StartsWord(str, i) ==
    \/ i = 1
    \/ ~IsAlnum(str[i - 1])
    \/ (str[i - 1] \in AsciiDigit /\ ~StartsWord(str, i - 1))

\* the alphanumeric characters of str from i on, the word starts
\* upper-cased and the others unchanged; digit_rule tells whether a digit
\* inside a word makes the next character a word start
RECURSIVE Rendered(_, _, _)
Rendered(str, i, digit_rule) ==
    IF i > Len(str) THEN <<>>
    ELSE LET starts == IF digit_rule THEN StartsWord(str, i)
                       ELSE AfterSeparator(str, i) IN
         (IF ~IsAlnum(str[i]) THEN <<>>
          ELSE IF starts THEN <<UpperOf(str[i])>>
          ELSE <<str[i]>>)
         \o Rendered(str, i + 1, digit_rule)

IsStrLit(t) ==
    /\ t.tt = "Literal"
    /\ Len(t.text) >= 2
    /\ t.text[1] = "\""
    /\ t.text[Len(t.text)] = "\""

Content(t) == SubSeq(t.text, 2, Len(t.text) - 1)

\* the string literals of the configuration list, in declaration order
ConfigLiterals == SelectSeq(attr, IsStrLit)

\* an empty enumeration named Ids, with or without a visibility qualifier
CanonicalItem ==
    \E v \in ItemVis :
        item = v \o <<PIdent("enum"), PIdent("Ids"), PGroup("Brace", <<>>)>>

\* the literal at position p is empty or equals an earlier literal
Offending(p) ==
    /\ IsStrLit(attr[p])
    /\ \/ Content(attr[p]) = <<>>
       \/ \E q \in 1..(p - 1) :
             IsStrLit(attr[q]) /\ Content(attr[q]) = Content(attr[p])

\* the token at position q is a comma or a literal the generator takes
Benign(q) ==
    \/ attr[q] = PPunct(",")
    \/ /\ IsStrLit(attr[q])
       /\ Content(attr[q]) # <<>>
       /\ Content(attr[q])[1] \in AsciiLower \cup {"á"}
       /\ ~Offending(q)

\* p is the first empty or repeated literal and nothing before it stops
\* the generator
FirstOffence(p) ==
    /\ p \in 1..Len(attr)
    /\ Offending(p)
    /\ \A q \in 1..(p - 1) : Benign(q)

AsStr(name) ==
    LET k == CHOOSE k \in 1..Len(output.arms) :
                /\ output.arms[k].ident = name
                /\ \A j \in 1..(k - 1) : output.arms[j].ident # name
    IN output.arms[k].literal

\* C13: generated code has exactly one variant per literal, in declaration
\* order, the i-th named by the pascal-case transform of the i-th literal,
\* and as_str maps the i-th variant to the i-th literal.
C13_VariantsMirrorLiterals ==
    output.kind = "code" =>
        /\ Len(output.variants) = Len(ConfigLiterals)
        /\ \A i \in 1..Len(ConfigLiterals) :
              /\ i <= Len(output.variants)
              /\ output.variants[i].ident
                   = to_case_Pascal(Content(ConfigLiterals[i]))
              /\ AsStr(output.variants[i].ident) = Content(ConfigLiterals[i])

\* C14: a configuration list with a literal that holds a non-ASCII
\* character is rejected: no enumeration is generated for it.
C14_NonAsciiRejected ==
    (/\ g_pc = "done"
     /\ \E p \in 1..Len(attr) :
           /\ IsStrLit(attr[p])
           /\ \E i \in 1..Len(Content(attr[p])) : Content(attr[p])[i] \in NonAscii)
    => output.kind # "code"

\* C15: the declaration gets past the check only when it is an empty
\* enumeration named Ids, with or without a visibility qualifier; for any
\* other declaration no code is generated.
C15_OnlyEmptyEnumIds ==
    /\ g_pc = "attr" => CanonicalItem
    /\ (g_pc = "done" /\ ~CanonicalItem) => output.kind # "code"

\* C20: the variant names of generated code are pairwise distinct.
C20_VariantNamesDistinct ==
    output.kind = "code" =>
        \A i, j \in 1..Len(output.variants) :
            i # j => output.variants[i].ident # output.variants[j].ident

\* a variant name that can be used: not empty, upper-case letter first
UsableName(name) == name # <<>> /\ name[1] \in AsciiUpper

\* the literal at position p passes the generator's tests: a string
\* literal that is not empty, all ASCII and not equal to an earlier one
AcceptedLiteral(p) ==
    /\ p \in 1..Len(attr)
    /\ IsStrLit(attr[p])
    /\ Content(attr[p]) # <<>>
    /\ \A i \in 1..Len(Content(attr[p])) : Content(attr[p])[i] \notin NonAscii
    /\ ~Offending(p)

\* C21: every literal the generator accepts (not empty, ASCII, not a
\* duplicate) yields a usable variant name: the names collected for ASCII
\* literals are non-empty and start with an upper-case letter, and the
\* expansion never stops at an accepted literal for want of a name.
C21_AcceptedLiteralUsableName ==
    /\ \A i \in 1..Len(ids) :
          (\A k \in 1..Len(ids[i]) : ids[i][k] \notin NonAscii)
          => (i <= Len(ids_variants_idents) /\ UsableName(ids_variants_idents[i]))
    /\ (g_pc = "done" /\ output = panic("Ident::new"))
       => ~AcceptedLiteral(g_pos + 1)
====
